---- MODULE Spec2Model ----
(***************************************************************************)
(* Snow.py: a pygame snowfall animation.  The module-level script builds   *)
(* three parallel lists (snow_list, size_list, color_list), then runs one  *)
(* loop: poll events, clear the screen, read the clock and update the      *)
(* time counters, run letItSnow over each half of the flakes, present,     *)
(* pace.  Every statement of the loop is one step of the model; the loop   *)
(* inside letItSnow is one step per flake.                                 *)
(***************************************************************************)
EXTENDS Integers, Sequences, FiniteSets, TLC

(* ---- program constants (Snow.py:15-23 and the literals of the loop) ---- *)
width == 700
height == 500
interval == 10000
override == 100
margin == 3

(* ---- bounds of the model ---- *)
\* number of flakes created at startup (the program uses 200)
flakes_amount == 2
\* number of frames the loop may start
MaxFrames == 3
\* greatest number of events one poll returns
MaxEvents == 2

navy == <<15, 20, 30>>

Indices == 0 .. (flakes_amount - 1)

(* ---- the random source ---- *)
\* random.randint(a, b): both ends included
randint(a, b) == a .. b
\* random.randrange(a, b): b excluded
randrange(a, b) == a .. (b - 1)

\* the two ends of a range
Lowest(S) == CHOOSE v \in S : \A w \in S : v <= w
Highest(S) == CHOOSE v \in S : \A w \in S : v >= w

\* the draws one pass of the loop body of letItSnow may consume, in the
\* order of the calls (lines 79, 81, 85, 87): every call returns the lowest
\* value of its range, or every call the highest
Draws ==
    { [vy |-> Lowest(randrange(-50, -10)),
       vx |-> Lowest(randrange(0, width - 50)),
       hy |-> Lowest(randrange(0, height - 50)),
       hx |-> Lowest(randrange(-50, -10))],
      [vy |-> Highest(randrange(-50, -10)),
       vx |-> Highest(randrange(0, width - 50)),
       hy |-> Highest(randrange(0, height - 50)),
       hx |-> Highest(randrange(-50, -10))] }

\* the draws of one iteration of the start-up loop (lines 45-50): size, x, y
\* and the grey level of createColour
InitDraws ==
    { [size |-> 2, x |-> 698, y |-> 100, handle |-> 30],
      [size |-> 3, x |-> 700, y |-> 500, handle |-> 255],
      [size |-> 4, x |-> 700, y |-> 100, handle |-> 128],
      [size |-> 2, x |-> 699, y |-> 499, handle |-> 200] }

\* the readings pygame.time.get_ticks() may return
ClockReadings == {9999, 10000, 10001, 25000}

EventKinds == {"QUIT", "OTHER"}

RECURSIVE SeqsUpTo(_)
SeqsUpTo(n) ==
    IF n = 0 THEN {<<>>}
    ELSE LET S == SeqsUpTo(n - 1)
         IN S \cup {Append(s, e) : s \in {t \in S : Len(t) = n - 1}, e \in EventKinds}

\* what pygame.event.get() may return
EventLists == SeqsUpTo(MaxEvents)

VARIABLES
    snow_list,    \* index -> <<x, y>>
    size_list,    \* index -> radius
    color_list,   \* index -> <<r, g, b>>
    time_passed, time_since, num_changed,
    done,
    pc,           \* the statement of the main script that runs next
    snows, lastSnow, x_wind, y_wind,   \* the locals of the running letItSnow call
    screen,       \* the circles drawn since the last fill
    frame,        \* number of frames started
    quit_polled,  \* the poll of this frame returned a QUIT event
    work,         \* the statements of the loop body this frame has run
    trace         \* per flake: what the latest pass over it did to it, in which
                  \* frame, and how many passes that frame has made over it

vars == <<snow_list, size_list, color_list, time_passed, time_since, num_changed,
          done, pc, snows, lastSnow, x_wind, y_wind, screen, frame, quit_polled,
          work, trace>>

\* the record of a flake no pass has reached yet
None == [before |-> <<0, 0>>, wind |-> 0, ywind |-> 0, drifted |-> <<0, 0>>,
         recycled |-> "unprocessed", frame |-> 0, count |-> 0]
\* the value of a local of letItSnow while no call is running (no index, no
\* bound and no drift of the program is negative)
NoLocal == -1

(* ---- start-up: lines 23-52 ---- *)
\* variant of line 42 that is not grey
createColour_Tinted(handle) == <<handle, handle, 255 - handle>>
\* lines 40-42
createColour(handle) == <<handle, handle, handle>>

snow_half == flakes_amount \div 2

Init ==
    /\ \E d \in [Indices -> InitDraws] :
         /\ d \in [Indices -> [size : randint(2, 4), x : randint(0, width),
                               y : randint(0, height), handle : randint(30, 255)]]
         /\ size_list = [i \in Indices |-> d[i].size]
         /\ snow_list = [i \in Indices |-> <<d[i].x, d[i].y>>]
         /\ color_list = [i \in Indices |-> createColour(d[i].handle)]
    /\ time_passed = 0
    /\ time_since = 0
    /\ num_changed = 0
    /\ done = FALSE
    /\ pc = "test"
    /\ snows = NoLocal /\ lastSnow = NoLocal /\ x_wind = NoLocal /\ y_wind = NoLocal
    /\ screen = {}
    /\ frame = 0
    /\ quit_polled = FALSE
    /\ work = <<>>
    /\ trace = [i \in Indices |-> None]

(* ---- the main loop: lines 91-121 ---- *)

\* line 91: while done==False
LoopTest ==
    /\ pc = "test"
    /\ IF done = FALSE
       THEN /\ frame < MaxFrames
            /\ pc' = "events"
            /\ frame' = frame + 1
            /\ work' = <<>>
            /\ quit_polled' = FALSE
       ELSE /\ pc' = "quit"
            /\ UNCHANGED <<frame, work, quit_polled>>
    /\ UNCHANGED <<snow_list, size_list, color_list, time_passed, time_since,
                   num_changed, done, snows, lastSnow, x_wind, y_wind, screen, trace>>

\* lines 93-95: the for loop over the polled events
RECURSIVE HandleEvents(_, _)
HandleEvents(evs, d) ==
    IF evs = <<>> THEN d
    ELSE HandleEvents(Tail(evs), IF Head(evs) = "QUIT" THEN TRUE ELSE d)

\* variant in which a QUIT event leaves the frame at once
AfterEvents_Break(d) == IF d THEN "test" ELSE "fill"
\* the statement that follows the event loop (line 98), whatever done is
AfterEvents(d) == "fill"

PollEvents ==
    /\ pc = "events"
    /\ \E evs \in EventLists :
         /\ done' = HandleEvents(evs, done)
         /\ quit_polled' = (\E k \in 1 .. Len(evs) : evs[k] = "QUIT")
    /\ pc' = AfterEvents(done')
    /\ work' = Append(work, "events")
    /\ UNCHANGED <<snow_list, size_list, color_list, time_passed, time_since,
                   num_changed, snows, lastSnow, x_wind, y_wind, screen, frame, trace>>

\* line 98: screen.fill(navy)
Fill ==
    /\ pc = "fill"
    /\ screen' = {}
    /\ pc' = "time"
    /\ work' = Append(work, "fill")
    /\ UNCHANGED <<snow_list, size_list, color_list, time_passed, time_since,
                   num_changed, done, snows, lastSnow, x_wind, y_wind, frame,
                   quit_polled, trace>>

\* variants of the condition of line 102: the subtraction forgotten, and a
\* strict comparison
TimeFires_NoSubtract(tp, ts) == tp >= interval
TimeFires_Strict(tp, ts) == (tp - ts) > interval
\* line 102: the condition of the time update
TimeFires(tp, ts) == (tp - ts) >= interval
\* variant of line 103 that records the reading itself
NewTimeSince_Reading(tp, ts) == IF (tp - ts) >= interval THEN tp ELSE ts
\* line 103
NewTimeSince(tp, ts) == IF TimeFires(tp, ts) THEN ts + interval ELSE ts
\* variant of line 104 that catches up every elapsed interval at once
NewNumChanged_CatchUp(tp, ts, nc) == nc + ((tp - ts) \div interval)
\* line 104
NewNumChanged(tp, ts, nc) == IF TimeFires(tp, ts) THEN nc + 1 ELSE nc

\* lines 101-108; the clock never runs backwards
TimeUpdate ==
    /\ pc = "time"
    /\ \E t \in ClockReadings :
         /\ t >= time_passed
         /\ time_passed' = t
         /\ time_since' = NewTimeSince(t, time_since)
         /\ num_changed' = NewNumChanged(t, time_since, num_changed)
    /\ pc' = "call1"
    /\ work' = Append(work, "time")
    /\ UNCHANGED <<snow_list, size_list, color_list, done, snows, lastSnow,
                   x_wind, y_wind, screen, frame, quit_polled, trace>>

(* ---- letItSnow: lines 55-88 ---- *)

\* line 57: pygame.draw.circle(screen, colour, centre, radius)
Circle(colour, centre, radius) == [color |-> colour, center |-> centre, radius |-> radius]

\* variant of line 61 that compares the clock reading instead of time_since
WindGuard_Elapsed(ts, nc) == time_passed > (interval + (interval * nc))
\* line 61: the condition of the wind override
WindGuard(ts, nc) == ts > (interval + (interval * nc))
\* lines 61-62: the value of the local x_wind after the if
WindAfterGuard(xw, ts, nc) == IF WindGuard(ts, nc) THEN override ELSE xw

\* variant of lines 72-73 that adds nothing
Drift_Still(p, xw, yw) == p
\* variant of lines 72-73 without line 73
Drift_OnlyX(p, xw, yw) == <<p[1] + xw, p[2]>>
\* lines 72-73
Drift(p, xw, yw) == <<p[1] + xw, p[2] + yw>>

\* variant of line 78 with an inclusive comparison
FellOff_Inclusive(p) == p[2] >= height + margin
\* line 78
FellOff(p) == p[2] > height + margin
\* variant of lines 79-82 whose x range reaches past the right margin
RecycleVertical_Wide(p, d) == IF p[2] > height + margin THEN <<d.vx + 100, d.vy>> ELSE p
\* lines 78-82
RecycleVertical(p, d) == IF FellOff(p) THEN <<d.vx, d.vy>> ELSE p

\* variant of line 84 with an inclusive comparison
BlewOff_Inclusive(p) == p[1] >= width + margin
\* line 84
BlewOff(p) == p[1] > width + margin
\* variant of lines 85-88 with the two draws assigned to the wrong coordinates
RecycleHorizontal_Swapped(p, d) == IF p[1] > width + margin THEN <<d.hy, d.hx>> ELSE p
\* lines 84-88
RecycleHorizontal(p, d) == IF BlewOff(p) THEN <<d.hx, d.hy>> ELSE p

\* lines 72-88 for one flake
Advance(p, xw, yw, d) == RecycleHorizontal(RecycleVertical(Drift(p, xw, yw), d), d)

\* which of the two ifs of lines 78 and 84 ran their bodies
Recycled(p, xw, yw, d) ==
    LET p1 == Drift(p, xw, yw)
        p2 == RecycleVertical(p1, d)
    IN CASE FellOff(p1) /\ BlewOff(p2) -> "both"
         [] FellOff(p1) /\ ~BlewOff(p2) -> "vertical"
         [] ~FellOff(p1) /\ BlewOff(p2) -> "horizontal"
         [] OTHER -> "none"

\* variant of the loop body that draws the flake after moving it
DrawnAt_AfterAdvance(p, xw, yw, d) == Advance(p, xw, yw, d)
\* the centre of the circle of line 57: the draw comes first in the loop
\* body, so it is the position the flake has before lines 72-88 run
DrawnAt(p, xw, yw, d) == p

\* the call letItSnow(firstSnow, lastSnow_, x, y): binds the parameters and
\* starts the for loop of line 56
Call(at, to, firstSnow, lastSnow_, x, y) ==
    /\ pc = at
    /\ snows' = firstSnow
    /\ lastSnow' = lastSnow_
    /\ x_wind' = x
    /\ y_wind' = y
    /\ pc' = to
    /\ UNCHANGED <<snow_list, size_list, color_list, time_passed, time_since,
                   num_changed, done, screen, frame, quit_polled, work, trace>>

\* line 111: letItSnow(0, snow_half, 1, 2)
CallFirstHalf == Call("call1", "snow1", 0, snow_half, 1, 2)
\* variant of line 112 whose range starts at 0 instead of snow_half
CallSecondHalf_Overlap == Call("call2", "snow2", 0, flakes_amount, 4, 4)
\* line 112: letItSnow(snow_half, len(snow_list), 4, 4)
CallSecondHalf == Call("call2", "snow2", snow_half, flakes_amount, 4, 4)

\* one iteration of the for loop of line 56, on the flake of index snows
letItSnow ==
    /\ pc \in {"snow1", "snow2"}
    /\ snows < lastSnow
    /\ x_wind' = WindAfterGuard(x_wind, time_since, num_changed)
    /\ \E d \in Draws :
         /\ screen' = screen \cup {Circle(color_list[snows],
                                          DrawnAt(snow_list[snows], x_wind', y_wind, d),
                                          size_list[snows])}
         /\ snow_list' = [snow_list EXCEPT ![snows] = Advance(snow_list[snows], x_wind', y_wind, d)]
         /\ trace' = [trace EXCEPT ![snows] =
                        [before |-> snow_list[snows],
                         wind |-> x_wind',
                         ywind |-> y_wind,
                         drifted |-> Drift(snow_list[snows], x_wind', y_wind),
                         recycled |-> Recycled(snow_list[snows], x_wind', y_wind, d),
                         frame |-> frame,
                         count |-> IF trace[snows].frame = frame
                                   THEN trace[snows].count + 1 ELSE 1]]
    /\ snows' = snows + 1
    /\ UNCHANGED <<size_list, color_list, time_passed, time_since, num_changed,
                   done, pc, lastSnow, y_wind, frame, quit_polled, work>>

\* the for loop of line 56 is exhausted: the call returns
Return ==
    /\ pc \in {"snow1", "snow2"}
    /\ snows = lastSnow
    /\ pc' = IF pc = "snow1" THEN "call2" ELSE "flip"
    /\ work' = Append(work, pc)
    /\ snows' = NoLocal /\ lastSnow' = NoLocal /\ x_wind' = NoLocal /\ y_wind' = NoLocal
    /\ UNCHANGED <<snow_list, size_list, color_list, time_passed, time_since,
                   num_changed, done, screen, frame, quit_polled, trace>>

\* line 115: pygame.display.flip()
Flip ==
    /\ pc = "flip"
    /\ pc' = "tick"
    /\ work' = Append(work, "flip")
    /\ UNCHANGED <<snow_list, size_list, color_list, time_passed, time_since,
                   num_changed, done, snows, lastSnow, x_wind, y_wind, screen,
                   frame, quit_polled, trace>>

\* line 118: clock.tick(24), then back to the test of line 91
Tick ==
    /\ pc = "tick"
    /\ pc' = "test"
    /\ work' = Append(work, "tick")
    /\ UNCHANGED <<snow_list, size_list, color_list, time_passed, time_since,
                   num_changed, done, snows, lastSnow, x_wind, y_wind, screen,
                   frame, quit_polled, trace>>

\* line 121: pygame.quit()
Quit ==
    /\ pc = "quit"
    /\ pc' = "exit"
    /\ UNCHANGED <<snow_list, size_list, color_list, time_passed, time_since,
                   num_changed, done, snows, lastSnow, x_wind, y_wind, screen,
                   frame, quit_polled, work, trace>>

Next ==
    \/ LoopTest
    \/ PollEvents
    \/ Fill
    \/ TimeUpdate
    \/ CallFirstHalf
    \/ CallSecondHalf
    \/ letItSnow
    \/ Return
    \/ Flip
    \/ Tick
    \/ Quit

Spec == Init /\ [][Next]_vars

\* the script is one sequential thread: a statement that can run does run
FairSpec == Spec /\ WF_vars(Next)

(* ---- the simulation work of one frame as a function ---- *)

\* lines 111-112: both letItSnow calls, run over the positions pos with the
\* counters ts and nc and the draws dd (one record of draws per flake)
Passes(pos, ts, nc, dd) ==
    [i \in Indices |->
        Advance(pos[i],
                WindAfterGuard(IF i < snow_half THEN 1 ELSE 4, ts, nc),
                IF i < snow_half THEN 2 ELSE 4,
                dd[i])]

\* lines 101-112: the time update with the reading t, then both calls
FrameWork(st, t, dd) ==
    LET ts2 == NewTimeSince(t, st.ts)
        nc2 == NewNumChanged(t, st.ts, st.nc)
    IN [pos |-> Passes(st.pos, ts2, nc2, dd), ts |-> ts2, nc |-> nc2]

(* ======================================================================= *)
(* Properties                                                              *)
(* ======================================================================= *)

\* flake i has been through the loop body of letItSnow in the current frame
Processed(i) ==
    \/ pc \in {"flip", "tick"}
    \/ pc = "snow1" /\ i < snows
    \/ pc = "call2" /\ i < snow_half
    \/ pc = "snow2" /\ i < snows

\* both letItSnow calls of the current frame have returned
FrameEnd == pc \in {"flip", "tick"}

\* the step of the current frame that reads the clock
TimeStep == pc = "time" /\ pc' = "call1"

\* the drift vector the main loop passes for the group of flake i
BaseDrift(i) == IF i < snow_half THEN <<1, 2>> ELSE <<4, 4>>

(* ---- C1 ---- *)
\* C1: in a frame whose clock reading exceeds interval * (1 + num_changed),
\* every flake processed in that frame is moved with horizontal drift 100, and
\* a flake once moved with drift 100 is moved with drift 100 ever after.
C1_DriftOverride ==
    /\ [](\A i \in Indices :
            (Processed(i) /\ time_passed > interval * (1 + num_changed))
                => trace[i].wind = override)
    /\ [][\A i \in Indices : trace[i].wind = override => trace'[i].wind = override]_vars

(* ---- C2 ---- *)
\* C2: time_since is always a multiple of the interval and at most time_passed,
\* and no step decreases it.
C2_TimeSinceInvariant ==
    /\ [](time_since % interval = 0 /\ time_since <= time_passed)
    /\ [][time_since' >= time_since]_vars

C2_Witness == time_since = 2 * interval /\ time_passed = 25000 /\ frame >= 2

(* ---- C3 ---- *)
\* C3: the counters change only in the time update of a frame, and there if and
\* only if the reading minus time_since is at least the interval (10,000
\* included); then time_since grows by exactly the interval and num_changed by
\* exactly 1.  From 0, a reading of 9,999 changes nothing and a reading of
\* 10,001 gives time_since = 10,000 and num_changed = 1.
C3_Trigger ==
    [][/\ (time_since' # time_since \/ num_changed' # num_changed)
            <=> (TimeStep /\ time_passed' - time_since >= interval)
       /\ (TimeStep /\ time_passed' - time_since >= interval)
            => (time_since' = time_since + interval /\ num_changed' = num_changed + 1)
       /\ (TimeStep /\ time_since = 0 /\ num_changed = 0 /\ time_passed' = 9999)
            => (time_since' = 0 /\ num_changed' = 0)
       /\ (TimeStep /\ time_since = 0 /\ num_changed = 0 /\ time_passed' = 10001)
            => (time_since' = 10000 /\ num_changed' = 1)]_vars

C3_Witness ==
    pc = "call1" /\ frame = 1 /\ time_passed = 10001 /\ time_since = 10000 /\ num_changed = 1

(* ---- C4 ---- *)
\* C4: num_changed grows by at most 1 in a step; when two or more intervals
\* have elapsed at the reading of a frame it grows by exactly 1 and the
\* reading minus time_since is still at least the interval; a frame that
\* starts with such a backlog consumes exactly one more crossing.
C4_NoCatchUp ==
    [][/\ num_changed' - num_changed \in {0, 1}
       /\ (TimeStep /\ time_passed' - time_since >= 2 * interval)
            => (num_changed' = num_changed + 1 /\ time_passed' - time_since' >= interval)
       /\ (TimeStep /\ time_passed - time_since >= interval)
            => (num_changed' = num_changed + 1 /\ time_since' = time_since + interval)]_vars

C4_Witness ==
    pc = "call1" /\ frame = 1 /\ time_passed = 25000 /\ time_since = interval /\ num_changed = 1

(* ---- C5 ---- *)
InRange(v, lo, hi) == lo <= v /\ v < hi

\* C5 as stated: at the end of every frame every flake has y <= height+3 and
\* x <= width+3, and a coordinate that exceeded its bound after the drift has
\* been reset into [-50, -10).
C5_Original ==
    FrameEnd =>
        \A i \in Indices :
            /\ snow_list[i][1] <= width + margin
            /\ snow_list[i][2] <= height + margin
            /\ trace[i].drifted[2] > height + margin => InRange(snow_list[i][2], -50, -10)
            /\ trace[i].drifted[1] > width + margin => InRange(snow_list[i][1], -50, -10)

\* C5 amended: at the end of every frame every flake has y <= height+3 and
\* x <= width+3; a y that exceeded its bound after the drift has been reset
\* into [-50, -10); an x that exceeded its bound has been reset into
\* [-50, -10) when the y did not exceed its bound, and into [0, width-50)
\* when it did.
C5_EndOfFrameBounds ==
    FrameEnd =>
        \A i \in Indices :
            /\ snow_list[i][1] <= width + margin
            /\ snow_list[i][2] <= height + margin
            /\ trace[i].drifted[2] > height + margin => InRange(snow_list[i][2], -50, -10)
            /\ (trace[i].drifted[1] > width + margin /\ trace[i].drifted[2] <= height + margin)
                  => InRange(snow_list[i][1], -50, -10)
            /\ (trace[i].drifted[1] > width + margin /\ trace[i].drifted[2] > height + margin)
                  => InRange(snow_list[i][1], 0, width - 50)

C5_Witness ==
    /\ FrameEnd
    /\ \E i \in Indices :
         /\ trace[i].drifted[1] > width + margin
         /\ trace[i].drifted[2] > height + margin
         /\ InRange(snow_list[i][1], 0, width - 50)
         /\ InRange(snow_list[i][2], -50, -10)

(* ---- C6 ---- *)
\* C6: a flake whose y after the drift is greater than height+3 is, in the
\* same pass, put at y in [-50, -10) and x in [0, width-50); a flake whose y
\* after the drift is at most height+3 is not recycled vertically.
C6_VerticalRecycle ==
    \A i \in Indices :
        Processed(i) =>
            /\ trace[i].drifted[2] > height + margin
                 => /\ InRange(snow_list[i][2], -50, -10)
                    /\ InRange(snow_list[i][1], 0, width - 50)
                    /\ trace[i].recycled = "vertical"
            /\ trace[i].drifted[2] <= height + margin
                 => trace[i].recycled \in {"none", "horizontal"}

C6_Witness ==
    \E i \in Indices :
         /\ Processed(i)
         /\ trace[i].drifted[2] = height + margin + 1
         /\ trace[i].recycled = "vertical"
         /\ InRange(snow_list[i][2], -50, -10)

(* ---- C7 ---- *)
\* C7: a flake whose position after the drift has x <= width+3 and
\* y <= height+3 is left at its old position plus the drift vector of its
\* group, so (698,100) with drift (1,2) becomes (699,102) and x = 703 stays; a
\* flake whose x after the drift is greater than width+3, and which was not
\* recycled vertically, is put at x in [-50, -10) and y in [0, height-50).
C7_HorizontalBoundary ==
    \A i \in Indices :
        Processed(i) =>
            /\ (trace[i].drifted[1] <= width + margin /\ trace[i].drifted[2] <= height + margin)
                 => /\ snow_list[i] = <<trace[i].before[1] + BaseDrift(i)[1],
                                        trace[i].before[2] + BaseDrift(i)[2]>>
                    /\ trace[i].recycled = "none"
            /\ (trace[i].before = <<698, 100>> /\ BaseDrift(i) = <<1, 2>>)
                 => snow_list[i] = <<699, 102>>
            /\ (trace[i].drifted[1] > width + margin /\ trace[i].recycled # "vertical")
                 => /\ InRange(snow_list[i][1], -50, -10)
                    /\ InRange(snow_list[i][2], 0, height - 50)
                    /\ trace[i].recycled = "horizontal"

C7_Witness ==
    /\ \E i \in Indices :
         /\ Processed(i)
         /\ trace[i].before = <<698, 100>>
         /\ snow_list[i] = <<699, 102>>
    /\ \E i \in Indices :
         /\ Processed(i)
         /\ snow_list[i][1] = width + margin
         /\ trace[i].recycled = "none"

C7_WitnessRecycle ==
    \E i \in Indices :
        /\ Processed(i)
        /\ trace[i].drifted[1] = width + margin + 1
        /\ trace[i].recycled = "horizontal"

(* ---- C8 ---- *)
\* C8: no step changes a radius, a colour or the number of flakes; there are
\* always flakes_amount flakes, each of radius 2, 3 or 4 and of colour
\* (g, g, g) with 30 <= g <= 255.
C8_FrameEffect ==
    /\ [][size_list' = size_list /\ color_list' = color_list
            /\ DOMAIN snow_list' = DOMAIN snow_list]_vars
    /\ [](/\ DOMAIN snow_list = Indices
          /\ DOMAIN size_list = Indices
          /\ DOMAIN color_list = Indices
          /\ Cardinality(DOMAIN snow_list) = flakes_amount
          /\ \A i \in Indices :
               /\ size_list[i] \in {2, 3, 4}
               /\ \E g \in 30 .. 255 : color_list[i] = <<g, g, g>>)

C8_Witness ==
    /\ FrameEnd
    /\ frame >= 2
    /\ \E i \in Indices :
         /\ trace[i].recycled \in {"vertical", "horizontal"}
         /\ snow_list[i] # trace[i].before
         /\ size_list[i] \in {2, 3, 4}
         /\ color_list[i][1] \in 30 .. 255

(* ---- C10 ---- *)
\* the statements of one whole pass of the loop body, in order
FullWork == <<"events", "fill", "time", "snow1", "snow2", "flip", "tick">>

\* C10: done becomes true only in the event poll of a frame that returned a
\* QUIT event, and never becomes false again; the frame that polled the QUIT
\* event runs its whole body (clear, time update, draw and advance of every
\* flake, present); once done is true no frame starts; the loop then ends;
\* the loop ends only when done is true.
C10_CooperativeQuit ==
    /\ [][done' # done => (done = FALSE /\ done' = TRUE /\ pc = "events" /\ quit_polled')]_vars
    /\ [][quit_polled' /\ pc = "events" => done']_vars
    /\ [](pc = "test" /\ quit_polled =>
            /\ work = FullWork
            /\ \A i \in Indices :
                 Circle(color_list[i], trace[i].before, size_list[i]) \in screen)
    /\ [][done => frame' = frame]_vars
    /\ [](pc \in {"quit", "exit"} => done)
    /\ (done ~> pc = "exit")

C10_Witness ==
    /\ pc = "exit"
    /\ done
    /\ quit_polled
    /\ work = FullWork
    /\ frame >= 2

(* ---- C11 ---- *)
\* C11 as stated: the circle drawn for a flake in a frame is at the position
\* the flake has after that frame's drift and recycling.
C11_Original ==
    \A i \in Indices :
        Processed(i) => Circle(color_list[i], snow_list[i], size_list[i]) \in screen

\* C11 amended: in a frame the events are polled first; then, flake by flake,
\* the circle is drawn and only then the flake is moved, so the circle drawn
\* for a flake is at the position it had before that frame's drift and
\* recycling, which is not its position after them.
C11_DrawBeforeAdvance ==
    \A i \in Indices :
        Processed(i) =>
            /\ Len(work) >= 3 /\ SubSeq(work, 1, 3) = <<"events", "fill", "time">>
            /\ Circle(color_list[i], trace[i].before, size_list[i]) \in screen
            /\ snow_list[i] # trace[i].before
            /\ snow_list[i] \in {Advance(trace[i].before, trace[i].wind, trace[i].ywind, d) :
                                   d \in Draws}

C11_Witness ==
    \E i \in Indices :
        /\ Processed(i)
        /\ Circle(color_list[i], trace[i].before, size_list[i]) \in screen
        /\ Circle(color_list[i], snow_list[i], size_list[i]) \notin screen
        /\ trace[i].recycled = "vertical"

(* ---- C12 ---- *)
\* C12: after initialization every flake has 0 <= x < width and
\* 0 <= y < height, whatever the random draws.
C12_InitialPlacement ==
    frame = 0 =>
        \A i \in Indices :
            /\ InRange(snow_list[i][1], 0, width)
            /\ InRange(snow_list[i][2], 0, height)

(* ---- C13 ---- *)
\* C13: at the end of a frame every index 0..N-1 has been drawn and advanced
\* exactly once in that frame, the indices below floor(N/2) with drift (1,2)
\* and the others with drift (4,4); the drift of a flake that has been
\* processed never changes afterwards, recycled or not.
C13_PartitionByIndex ==
    /\ [](FrameEnd =>
            \A i \in Indices :
                /\ trace[i].frame = frame
                /\ trace[i].count = 1
                /\ Circle(color_list[i], trace[i].before, size_list[i]) \in screen
                /\ <<trace[i].wind, trace[i].ywind>> =
                       (IF i < flakes_amount \div 2 THEN <<1, 2>> ELSE <<4, 4>>)
                /\ trace[i].drifted = <<trace[i].before[1] + trace[i].wind,
                                        trace[i].before[2] + trace[i].ywind>>)
    /\ [](\A i \in Indices : trace[i].count <= 1)
    /\ [][\A i \in Indices :
            trace[i].recycled # "unprocessed"
                => (trace'[i].wind = trace[i].wind /\ trace'[i].ywind = trace[i].ywind)]_vars

C13_Witness ==
    /\ FrameEnd
    /\ frame >= 2
    /\ \A i \in Indices : trace[i].frame = frame /\ trace[i].count = 1
    /\ \E i \in Indices :
         /\ i >= snow_half
         /\ trace[i].before[2] < 0
         /\ trace[i].wind = 4
    /\ \E i \in Indices : i < snow_half /\ trace[i].wind = 1

(* ---- C14 ---- *)
\* the recycling written as 'if vertical ... else if horizontal ...'
AdvanceElseIf(p, xw, yw, d) ==
    LET q == <<p[1] + xw, p[2] + yw>>
    IN IF q[2] > height + margin THEN <<d.vx, d.vy>>
       ELSE IF q[1] > width + margin THEN <<d.hx, d.hy>>
       ELSE q

\* C14: no pass recycles a flake twice: when the vertical recycle runs, the
\* horizontal check that follows is false; the two consecutive ifs give, for
\* the flake about to be processed and every draw, the same position as
\* 'if vertical ... else if horizontal ...'; a flake past both bounds is
\* recycled vertically, to y in [-50, -10).
C14_AtMostOneRecycle ==
    /\ \A i \in Indices :
         Processed(i) =>
            /\ trace[i].recycled \in {"none", "vertical", "horizontal"}
            /\ (trace[i].drifted[1] > width + margin /\ trace[i].drifted[2] > height + margin)
                 => /\ trace[i].recycled = "vertical"
                    /\ InRange(snow_list[i][2], -50, -10)
                    /\ InRange(snow_list[i][1], 0, width - 50)
            /\ snow_list[i] \in {AdvanceElseIf(trace[i].before, trace[i].wind, trace[i].ywind, d) :
                                   d \in Draws}
    /\ (pc \in {"snow1", "snow2"} /\ snows < lastSnow) =>
         \A d \in Draws :
            Advance(snow_list[snows], WindAfterGuard(x_wind, time_since, num_changed), y_wind, d)
              = AdvanceElseIf(snow_list[snows],
                              WindAfterGuard(x_wind, time_since, num_changed), y_wind, d)

C14_Witness ==
    \E i \in Indices :
        /\ Processed(i)
        /\ trace[i].drifted[1] > width + margin
        /\ trace[i].drifted[2] > height + margin
        /\ trace[i].recycled = "vertical"
        /\ snow_list[i][2] < 0
        /\ snow_list[i][1] >= 0

(* ---- C15 ---- *)
\* C15: time_since is always 10,000 * num_changed, so the condition of line
\* 61 is false in every reachable state and no flake is ever moved with
\* x_wind = 100.
C15_GuardNeverFires ==
    /\ time_since = interval * num_changed
    /\ ~(time_since > 10000 + 10000 * num_changed)
    /\ ~WindGuard(time_since, num_changed)
    /\ x_wind # override
    /\ \A i \in Indices : trace[i].wind # override

C15_Witness ==
    /\ pc = "flip"
    /\ num_changed = 2
    /\ time_since = 2 * interval
    /\ \A i \in Indices : trace[i].frame = frame /\ trace[i].wind \in {1, 4}

(* ---- C16 ---- *)
\* the values the two counters can have together
CounterStates == {[ts |-> k * interval, nc |-> k] : k \in 0 .. MaxFrames}

\* where a frame puts the flakes when every flake moves by the drift of its
\* group and every pass draws d: no clock reading and no counter enters
ClockFree(pos, d) ==
    [i \in Indices |-> AdvanceElseIf(pos[i], BaseDrift(i)[1], BaseDrift(i)[2], d)]

\* C16: the positions never depend on the clock.  Every pass over a flake
\* puts it where the drift of its group, (1,2) or (4,4), and the draws put it,
\* and no other step moves a flake; the positions at the end of a frame are
\* those the frame function gives; and from the positions at the start of a
\* frame, the frame run with any counters and any clock reading ends, for the
\* same draws, with the same positions, so two runs with different clocks
\* agree after every frame.
C16_ClockIndependence ==
    /\ [][IF pc \in {"snow1", "snow2"} /\ snows < lastSnow
          THEN /\ trace'[snows].drifted = <<snow_list[snows][1] + BaseDrift(snows)[1],
                                           snow_list[snows][2] + BaseDrift(snows)[2]>>
               /\ \E d \in Draws :
                    snow_list' = [snow_list EXCEPT ![snows] =
                        Advance(snow_list[snows], BaseDrift(snows)[1], BaseDrift(snows)[2], d)]
          ELSE snow_list' = snow_list]_vars
    /\ [](FrameEnd =>
            \E dd \in [Indices -> Draws] :
                snow_list = Passes([i \in Indices |-> trace[i].before],
                                   time_since, num_changed, dd))
    /\ [](pc = "test" =>
            \A d \in Draws :
              \A c \in CounterStates :
                \A t \in ClockReadings :
                    FrameWork([pos |-> snow_list, ts |-> c.ts, nc |-> c.nc], t,
                              [i \in Indices |-> d]).pos
                      = ClockFree(snow_list, d))

C16_Witness ==
    /\ FrameEnd
    /\ frame >= 2
    /\ time_passed = 25000
    /\ num_changed = 1
    /\ \A i \in Indices :
         /\ trace[i].frame = frame
         /\ trace[i].drifted = <<trace[i].before[1] + BaseDrift(i)[1],
                                 trace[i].before[2] + BaseDrift(i)[2]>>

(* ---- C17 ---- *)
\* the number of passes after which a flake at p, moved by (dx, dy) in every
\* pass, is past a bound
FramesToRecycle(p, dx, dy) ==
    LET fx == ((width + margin - p[1]) \div dx) + 1
        fy == ((height + margin - p[2]) \div dy) + 1
    IN IF fx < fy THEN fx ELSE fy

Budget(i) == FramesToRecycle(snow_list[i], BaseDrift(i)[1], BaseDrift(i)[2])

\* the pass of the current frame has recycled flake i
RecycledNow(i) == Processed(i) /\ trace[i].recycled \in {"vertical", "horizontal"}

SimState == [pos |-> snow_list, ts |-> time_since, nc |-> num_changed]

\* C18 as stated: from the state at the start of a frame, doing the frame's
\* simulation work twice, with the same clock reading and the same draws,
\* leaves the same positions and counters as doing it once.
C18_Original ==
    (pc = "test" /\ frame >= 1) =>
        \A t \in {r \in ClockReadings : r >= time_passed} :
            \A d \in Draws :
                LET dd == [i \in Indices |-> d]
                    once == FrameWork(SimState, t, dd)
                IN FrameWork(once, t, dd) = once

\* C18 amended: the work is not idempotent.  Doing it twice leaves every
\* flake at another position than doing it once, and leaves the counters of
\* doing it once only if, after the first, the reading minus time_since is
\* below the interval; and in the run itself every pass leaves the flake at
\* another position than it found it.
C18_NotIdempotent ==
    /\ pc = "test" =>
         \A t \in {r \in ClockReadings : r >= time_passed} :
            \A d \in Draws :
                LET dd == [i \in Indices |-> d]
                    once == FrameWork(SimState, t, dd)
                    twice == FrameWork(once, t, dd)
                IN /\ \A i \in Indices : twice.pos[i] # once.pos[i]
                   /\ (twice.ts = once.ts /\ twice.nc = once.nc) <=> (t - once.ts < interval)
    /\ \A i \in Indices : Processed(i) => snow_list[i] # trace[i].before

C18_Witness ==
    /\ pc = "test"
    /\ frame >= 1
    /\ \E t \in {r \in ClockReadings : r >= time_passed} :
         \E d \in Draws :
            LET dd == [i \in Indices |-> d]
                once == FrameWork(SimState, t, dd)
                twice == FrameWork(once, t, dd)
            IN /\ twice.nc = once.nc + 1
               /\ \E i \in Indices : once.pos[i][2] < 0 /\ twice.pos[i] # once.pos[i]

====
